---- MODULE Spec2Model ----
(***************************************************************************)
(* Zen Tab Auto-Closer: the tracking and eviction engine of background.js  *)
(* and the settings listener of popup/popup.js.                            *)
(*                                                                         *)
(* Every async function is a task.  A task's pc names the await it is      *)
(* suspended at; one action performs the awaited browser operation and the *)
(* synchronous code that follows it, up to the next await.                 *)
(***************************************************************************)
EXTENDS Integers, Sequences, FiniteSets, TLC

VARIABLES
    tabs,           \* the browser's live tabs: id -> [url, pinned, active]
    storeTs,        \* storage.local "tabTimestamps": key (decimal string) -> epoch ms
    storeSettings,  \* storage.local "settings": <<>> when never stored, else <<[maxAgeDays |-> v]>>
    alarms,         \* the browser's alarms: set of [name, periodInMinutes]
    badge,          \* browserAction badge text, a string of digits (<<>> is "")
    clock,          \* Date.now()
    tasks,          \* slot -> task record (the running listeners)
    budget          \* how many more events of the browser and the user the model follows

vars == <<tabs, storeTs, storeSettings, alarms, badge, clock, tasks, budget>>

-----------------------------------------------------------------------------
(* Bounds of the model *)

MaxTasks == 2

MaxEvents == 1

MaxSeqEvents == 3

MaxLiveEvents == 2

TabIds == {3, 12}

Urls == {"", "a"}

Slots == 1..MaxTasks

-----------------------------------------------------------------------------
(* Program constants *)

ALARM_NAME == "zen-closer-sweep"

ALARM_PERIOD_MINUTES == 60

DEFAULT_SETTINGS == [maxAgeDays |-> 7]

ONE_HOUR == 60 * 60 * 1000

\* settings.maxAgeDays * 24 * 60 * 60 * 1000
MaxAgeMs(settings) == settings.maxAgeDays * 24 * 60 * 60 * 1000

\* The instants Date.now() takes in the model: 0 and, for a timestamp of 0
\* under the default TTL, the instant the warning window opens, the instant
\* before it and the instant of expiry.
Instants ==
    { 0,
      MaxAgeMs(DEFAULT_SETTINGS) - ONE_HOUR - 1,
      MaxAgeMs(DEFAULT_SETTINGS) - ONE_HOUR,
      MaxAgeMs(DEFAULT_SETTINGS) }

\* What the user can type into the max-age field.
SettingsInputs ==
    { <<>>, <<"x">>, <<"-", "1">>, <<"0">>, <<"2">> }

-----------------------------------------------------------------------------
(* Strings of decimal digits: object keys and the badge text *)

DigitChars == <<"0", "1", "2", "3", "4", "5", "6", "7", "8", "9">>

IsDigit(c) == \E d \in 1..10 : DigitChars[d] = c

DigitVal(c) == (CHOOSE d \in 1..10 : DigitChars[d] = c) - 1

RECURSIVE String(_)
\* String(n) for a non-negative integer n.
String(n) ==
    IF n < 10 THEN <<DigitChars[n + 1]>>
    ELSE Append(String(n \div 10), DigitChars[(n % 10) + 1])

RECURSIVE DigitsValue(_)
DigitsValue(ds) ==
    IF ds = <<>> THEN 0
    ELSE 10 * DigitsValue(SubSeq(ds, 1, Len(ds) - 1)) + DigitVal(ds[Len(ds)])

\* Number(key) for a key of an object written with integer property names.
Number(key) == DigitsValue(key)

RECURSIVE DigitPrefix(_)
\* The longest prefix of s made of digits.
DigitPrefix(s) ==
    IF s # <<>> /\ IsDigit(Head(s)) THEN <<Head(s)>> \o DigitPrefix(Tail(s))
    ELSE <<>>

\* parseFloat(s): <<>> is NaN, <<v>> the number v.  Only signs and integer
\* digits occur in SettingsInputs.
parseFloat(s) ==
    LET neg  == s # <<>> /\ Head(s) = "-"
        body == IF neg THEN Tail(s) ELSE s
        ds   == DigitPrefix(body)
    IN  IF ds = <<>> THEN <<>>
        ELSE <<(IF neg THEN -1 ELSE 1) * DigitsValue(ds)>>

isNaN(v) == v = <<>>

-----------------------------------------------------------------------------
(* Objects used as maps *)

EmptyMap == [k \in {} |-> 0]

\* obj[key] = v
MapSet(m, key, v) ==
    [k \in (DOMAIN m) \cup {key} |-> IF k = key THEN v ELSE m[k]]

\* delete obj[key]
MapDelete(m, key) == [k \in (DOMAIN m) \ {key} |-> m[k]]

RECURSIVE MapSetAll(_, _, _)
\* for (const k of keys) obj[k] = v
MapSetAll(m, keys, v) ==
    IF keys = {} THEN m
    ELSE LET k == CHOOSE x \in keys : TRUE
         IN  MapSetAll(MapSet(m, k, v), keys \ {k}, v)

-----------------------------------------------------------------------------
(* Storage helpers *)

\* browser.storage.local.get({tabTimestamps: {}, settings: DEFAULT_SETTINGS})
getStorageData ==
    [ tabTimestamps |-> storeTs,
      settings |-> IF storeSettings = <<>> THEN DEFAULT_SETTINGS
                   ELSE storeSettings[1] ]

\* The awaits of getStorageData() and of saveTimestamps().
LoadPcs ==
    {"init_load", "sweep_load", "badge_load", "created_load", "activated_load",
     "removed_load"}

SavePcs ==
    {"init_save", "sweep_save", "created_save", "activated_save", "removed_save"}

-----------------------------------------------------------------------------
(* browser.tabs *)

TabOf(id) ==
    [id |-> id, url |-> tabs[id].url, pinned |-> tabs[id].pinned,
     active |-> tabs[id].active]

\* browser.tabs.query({}): the live tabs, in an order the browser chooses.
QueryResults ==
    LET n == Cardinality(DOMAIN tabs)
    IN  { [i \in 1..n |-> TabOf(f[i])] :
            f \in { g \in [1..n -> DOMAIN tabs] :
                      \A i, j \in 1..n : i # j => g[i] # g[j] } }

SnapIds(snap) == { snap[i].id : i \in 1..Len(snap) }

\* protectedUrls with the pinned tabs forgotten.
protectedUrlsActiveOnly(snap) ==
    { snap[i].url : i \in { j \in 1..Len(snap) : snap[j].active /\ snap[j].url # "" } }

\* protectedUrls without the test of active and pinned: every tab's URL.
protectedUrlsEveryTab(snap) ==
    { snap[i].url : i \in { j \in 1..Len(snap) : snap[j].url # "" } }

\* protectedUrls without the test of tab.url: an empty URL is added too.
protectedUrlsWithEmpty(snap) ==
    { snap[i].url : i \in { j \in 1..Len(snap) : snap[j].active \/ snap[j].pinned } }

\* The URLs that have an active or pinned tab somewhere.
protectedUrls(snap) ==
    { snap[i].url : i \in { j \in 1..Len(snap) :
                              (snap[j].active \/ snap[j].pinned) /\ snap[j].url # "" } }

-----------------------------------------------------------------------------
(* Tasks *)

Idle ==
    [ kind |-> "idle", pc |-> "idle", tab |-> 0, input |-> <<>>, val |-> 0,
      loaded |-> EmptyMap, ts |-> EmptyMap, maxAge |-> 0, now |-> 0,
      snap |-> <<>>, i |-> 0, removed |-> {}, threw |-> {}, atRisk |-> 0,
      url |-> "", existing |-> FALSE, failed |-> FALSE ]

NewTask(kind, pc, tab) == [Idle EXCEPT !.kind = kind, !.pc = pc, !.tab = tab]

FreeSlots == { s \in Slots : tasks[s].kind = "idle" }

FreeSlot == CHOOSE s \in FreeSlots : \A r \in FreeSlots : s <= r

\* One more event of the browser or the user.
Occurs == budget > 0 /\ budget' = budget - 1

\* The listener starts: its task takes the lowest free slot.
Spawn(t) == tasks' = [tasks EXCEPT ![FreeSlot] = t]

-----------------------------------------------------------------------------
(* initializeTimestamps *)

RECURSIVE AddMissingRefresh(_, _, _, _, _)
\* AddMissing without the existingIds test: every queried tab gets now.
AddMissingRefresh(m, snap, existingIds, now, i) ==
    IF i > Len(snap) THEN m
    ELSE AddMissingRefresh(MapSet(m, String(snap[i].id), now),
                           snap, existingIds, now, i + 1)

RECURSIVE AddMissing(_, _, _, _, _)
\* for (const tab of tabs) if (!existingIds.has(tab.id)) tabTimestamps[tab.id] = now
AddMissing(m, snap, existingIds, now, i) ==
    IF i > Len(snap) THEN m
    ELSE AddMissing(IF snap[i].id \in existingIds THEN m
                    ELSE MapSet(m, String(snap[i].id), now),
                    snap, existingIds, now, i + 1)

RECURSIVE DeleteGone(_, _, _)
\* for (const id of existingIds) if (!currentTabIds.has(id)) delete tabTimestamps[id]
DeleteGone(m, ids, currentTabIds) ==
    IF ids = {} THEN m
    ELSE LET id == CHOOSE x \in ids : TRUE
         IN  DeleteGone(IF id \in currentTabIds THEN m ELSE MapDelete(m, String(id)),
                        ids \ {id}, currentTabIds)

\* The map initializeTimestamps() saves, from the map it loaded, the tabs it
\* queried and its Date.now().
initializeResult(tabTimestamps, snap, now) ==
    LET existingIds   == { Number(k) : k \in DOMAIN tabTimestamps }
        currentTabIds == SnapIds(snap)
    IN  DeleteGone(AddMissing(tabTimestamps, snap, existingIds, now, 1),
                   existingIds, currentTabIds)

InitLoad(s) ==
    /\ tasks[s].pc = "init_load"
    /\ tasks' = [tasks EXCEPT ![s] =
           [@ EXCEPT !.pc = "init_query",
                     !.loaded = getStorageData.tabTimestamps,
                     !.ts = getStorageData.tabTimestamps]]
    /\ UNCHANGED <<tabs, storeTs, storeSettings, alarms, badge, clock, budget>>

InitQuery(s) ==
    /\ tasks[s].pc = "init_query"
    /\ \E q \in QueryResults :
         tasks' = [tasks EXCEPT ![s] =
             [@ EXCEPT !.pc = "init_save",
                       !.snap = q,
                       !.now = clock,
                       !.ts = initializeResult(@, q, clock)]]
    /\ UNCHANGED <<tabs, storeTs, storeSettings, alarms, badge, clock, budget>>

\* saveTimestamps(tabTimestamps), then updateBadge() starts.
InitSave(s) ==
    /\ tasks[s].pc = "init_save"
    /\ storeTs' = tasks[s].ts
    /\ tasks' = [tasks EXCEPT ![s] = [@ EXCEPT !.pc = "badge_load"]]
    /\ UNCHANGED <<tabs, storeSettings, alarms, badge, clock, budget>>

-----------------------------------------------------------------------------
(* sweep *)

\* ShouldRemove without the skip of the active tab.
ShouldRemoveActive(tab, tabTimestamps, now, maxAge, prot) ==
    /\ ~tab.pinned
    /\ ~(tab.url # "" /\ tab.url \in prot)
    /\ String(tab.id) \in DOMAIN tabTimestamps
    /\ now - tabTimestamps[String(tab.id)] >= maxAge

\* ShouldRemove with > for >=.
ShouldRemoveStrict(tab, tabTimestamps, now, maxAge, prot) ==
    /\ ~tab.pinned
    /\ ~tab.active
    /\ ~(tab.url # "" /\ tab.url \in prot)
    /\ String(tab.id) \in DOMAIN tabTimestamps
    /\ now - tabTimestamps[String(tab.id)] > maxAge

\* ShouldRemove an hour early: the test of the warning window's upper edge.
ShouldRemoveWithinHour(tab, tabTimestamps, now, maxAge, prot) ==
    /\ ~tab.pinned
    /\ ~tab.active
    /\ ~(tab.url # "" /\ tab.url \in prot)
    /\ String(tab.id) \in DOMAIN tabTimestamps
    /\ now - tabTimestamps[String(tab.id)] >= maxAge - ONE_HOUR

\* The tab passes the three skips of the loop and is old enough.
ShouldRemove(tab, tabTimestamps, now, maxAge, prot) ==
    /\ ~tab.pinned
    /\ ~tab.active
    /\ ~(tab.url # "" /\ tab.url \in prot)
    /\ String(tab.id) \in DOMAIN tabTimestamps
    /\ now - tabTimestamps[String(tab.id)] >= maxAge

\* NextRemoval with break for continue: the loop ends at the first tab it skips.
NextRemovalBreaks(snap, tabTimestamps, now, maxAge, i) ==
    IF i <= Len(snap)
       /\ ShouldRemove(snap[i], tabTimestamps, now, maxAge, protectedUrls(snap))
    THEN i ELSE Len(snap) + 1

RECURSIVE NextRemovalSeenSoFar(_, _, _, _, _)
\* NextRemoval with the protected URLs collected inside the loop: only the
\* tabs up to the one being looked at protect.
NextRemovalSeenSoFar(snap, tabTimestamps, now, maxAge, i) ==
    IF i > Len(snap) THEN i
    ELSE IF ShouldRemove(snap[i], tabTimestamps, now, maxAge,
                         protectedUrls(SubSeq(snap, 1, i)))
         THEN i
         ELSE NextRemovalSeenSoFar(snap, tabTimestamps, now, maxAge, i + 1)

RECURSIVE NextRemoval(_, _, _, _, _)
\* The loop runs synchronously to the next tab it removes.
NextRemoval(snap, tabTimestamps, now, maxAge, i) ==
    IF i > Len(snap) THEN i
    ELSE IF ShouldRemove(snap[i], tabTimestamps, now, maxAge, protectedUrls(snap))
         THEN i
         ELSE NextRemoval(snap, tabTimestamps, now, maxAge, i + 1)

\* CleanOrphans that deletes nothing.
CleanOrphansNone(tabTimestamps, currentTabIds) == tabTimestamps

\* for (const id of Object.keys(tabTimestamps))
\*   if (!currentTabIds.has(Number(id))) delete tabTimestamps[id]
CleanOrphans(tabTimestamps, currentTabIds) ==
    [k \in { x \in DOMAIN tabTimestamps : Number(x) \in currentTabIds }
       |-> tabTimestamps[k]]

RECURSIVE SweepLoop(_, _, _, _, _, _)
\* The loop from index i and the clean-up that follows it, run whole: the ids
\* tabs.remove is called with and the map handed to saveTimestamps.
SweepLoop(snap, tabTimestamps, now, maxAge, i, removed) ==
    LET j == NextRemoval(snap, tabTimestamps, now, maxAge, i)
    IN  IF j > Len(snap)
        THEN [removed |-> removed, ts |-> CleanOrphans(tabTimestamps, SnapIds(snap))]
        ELSE SweepLoop(snap, MapDelete(tabTimestamps, String(snap[j].id)), now, maxAge,
                       j + 1, removed \cup {snap[j].id})

\* The task t resumes its loop at index i: it stops at the next removal, or
\* leaves the loop, cleans up the orphans and calls saveTimestamps.
SweepResume(t, i) ==
    LET j == NextRemoval(t.snap, t.ts, t.now, t.maxAge, i)
    IN  IF j <= Len(t.snap)
        THEN [t EXCEPT !.pc = "sweep_remove", !.i = j]
        ELSE [t EXCEPT !.pc = "sweep_save", !.i = j,
                       !.ts = CleanOrphans(t.ts, SnapIds(t.snap))]

SweepLoad(s) ==
    /\ tasks[s].pc = "sweep_load"
    /\ tasks' = [tasks EXCEPT ![s] =
           [@ EXCEPT !.pc = "sweep_query",
                     !.loaded = getStorageData.tabTimestamps,
                     !.ts = getStorageData.tabTimestamps,
                     !.maxAge = MaxAgeMs(getStorageData.settings),
                     !.now = clock]]
    /\ UNCHANGED <<tabs, storeTs, storeSettings, alarms, badge, clock, budget>>

SweepQuery(s) ==
    /\ tasks[s].pc = "sweep_query"
    /\ \E q \in QueryResults :
         tasks' = [tasks EXCEPT ![s] = SweepResume([@ EXCEPT !.snap = q], 1)]
    /\ UNCHANGED <<tabs, storeTs, storeSettings, alarms, badge, clock, budget>>

\* SweepRemove that saves the map after each delete.
SweepRemoveSaves(s) ==
    /\ tasks[s].pc = "sweep_remove"
    /\ LET t    == tasks[s]
           id   == t.snap[t.i].id
           next == SweepResume([t EXCEPT !.ts = MapDelete(@, String(id)),
                                         !.removed = @ \cup {id}], t.i + 1)
       IN  /\ storeTs' = MapDelete(t.ts, String(id))
           /\ IF id \in DOMAIN tabs
              THEN /\ FreeSlots # {}
                   /\ tabs' = [x \in (DOMAIN tabs) \ {id} |-> tabs[x]]
                   /\ tasks' = [tasks EXCEPT ![s] = next,
                                             ![FreeSlot] = NewTask("removed", "removed_load", id)]
              ELSE /\ tabs' = tabs
                   /\ tasks' = [tasks EXCEPT ![s] = [next EXCEPT !.threw = @ \cup {id}]]
    /\ UNCHANGED <<storeSettings, alarms, badge, clock, budget>>

\* SweepRemove without the try/catch: a removal that throws ends the pass.
SweepRemoveThrows(s) ==
    /\ tasks[s].pc = "sweep_remove"
    /\ LET t    == tasks[s]
           id   == t.snap[t.i].id
           next == SweepResume([t EXCEPT !.ts = MapDelete(@, String(id)),
                                         !.removed = @ \cup {id}], t.i + 1)
       IN  IF id \in DOMAIN tabs
           THEN /\ FreeSlots # {}
                /\ tabs' = [x \in (DOMAIN tabs) \ {id} |-> tabs[x]]
                /\ tasks' = [tasks EXCEPT ![s] = next,
                                          ![FreeSlot] = NewTask("removed", "removed_load", id)]
           ELSE /\ tabs' = tabs
                /\ tasks' = [tasks EXCEPT ![s] =
                       [t EXCEPT !.pc = "done", !.failed = TRUE, !.threw = @ \cup {id}]]
    /\ UNCHANGED <<storeTs, storeSettings, alarms, badge, clock, budget>>

\* browser.tabs.remove(tab.id) of a live tab closes it and fires onRemoved;
\* of a tab already gone it throws, which is caught.  Either way the entry is
\* deleted and the loop goes on.
SweepRemove(s) ==
    /\ tasks[s].pc = "sweep_remove"
    /\ LET t    == tasks[s]
           id   == t.snap[t.i].id
           next == SweepResume([t EXCEPT !.ts = MapDelete(@, String(id)),
                                         !.removed = @ \cup {id}], t.i + 1)
       IN  IF id \in DOMAIN tabs
           THEN /\ FreeSlots # {}
                /\ tabs' = [x \in (DOMAIN tabs) \ {id} |-> tabs[x]]
                /\ tasks' = [tasks EXCEPT ![s] = next,
                                          ![FreeSlot] = NewTask("removed", "removed_load", id)]
           ELSE /\ tabs' = tabs
                /\ tasks' = [tasks EXCEPT ![s] = [next EXCEPT !.threw = @ \cup {id}]]
    /\ UNCHANGED <<storeTs, storeSettings, alarms, badge, clock, budget>>

\* saveTimestamps(tabTimestamps), then updateBadge() starts.
SweepSave(s) ==
    /\ tasks[s].pc = "sweep_save"
    /\ storeTs' = tasks[s].ts
    /\ tasks' = [tasks EXCEPT ![s] = [@ EXCEPT !.pc = "badge_load"]]
    /\ UNCHANGED <<tabs, storeSettings, alarms, badge, clock, budget>>

-----------------------------------------------------------------------------
(* updateBadge *)

\* AtRisk with >= 0 for > 0.
AtRiskInclusive(tab, tabTimestamps, now, maxAge, prot) ==
    /\ ~(tab.pinned \/ tab.active)
    /\ ~(tab.url # "" /\ tab.url \in prot)
    /\ String(tab.id) \in DOMAIN tabTimestamps
    /\ LET remaining == maxAge - (now - tabTimestamps[String(tab.id)])
       IN  remaining >= 0 /\ remaining <= ONE_HOUR

\* The tab passes the skips of the counting loop and is within an hour of
\* being closed.
AtRisk(tab, tabTimestamps, now, maxAge, prot) ==
    /\ ~(tab.pinned \/ tab.active)
    /\ ~(tab.url # "" /\ tab.url \in prot)
    /\ String(tab.id) \in DOMAIN tabTimestamps
    /\ LET remaining == maxAge - (now - tabTimestamps[String(tab.id)])
       IN  remaining > 0 /\ remaining <= ONE_HOUR

RECURSIVE CountAtRisk(_, _, _, _, _)
\* let atRisk = 0; for (const tab of tabs) { ...; atRisk++ }
CountAtRisk(snap, tabTimestamps, now, maxAge, i) ==
    IF i > Len(snap) THEN 0
    ELSE (IF AtRisk(snap[i], tabTimestamps, now, maxAge, protectedUrls(snap))
          THEN 1 ELSE 0)
         + CountAtRisk(snap, tabTimestamps, now, maxAge, i + 1)

\* setBadgeText({text: String(atRisk)}) or setBadgeText({text: ""})
BadgeText(atRisk) == IF atRisk > 0 THEN String(atRisk) ELSE <<>>

\* browser.alarms.create(name, {periodInMinutes}): an alarm of that name is
\* replaced.
AlarmsCreate(name, period) ==
    { a \in alarms : a.name # name } \cup {[name |-> name, periodInMinutes |-> period]}

\* browser.alarms.get(name) found an alarm.
AlarmsGet(name) == \E a \in alarms : a.name = name

\* BadgeLoad that writes the settings it read, defaults included, back.
BadgeLoadStoresDefaults(s) ==
    /\ tasks[s].pc = "badge_load"
    /\ tasks' = [tasks EXCEPT ![s] =
           [@ EXCEPT !.pc = "badge_query",
                     !.loaded = getStorageData.tabTimestamps,
                     !.ts = getStorageData.tabTimestamps,
                     !.maxAge = MaxAgeMs(getStorageData.settings),
                     !.now = clock,
                     !.snap = <<>>, !.i = 0, !.removed = {}, !.threw = {}]]
    /\ storeSettings' = <<getStorageData.settings>>
    /\ UNCHANGED <<tabs, storeTs, alarms, badge, clock, budget>>

BadgeLoad(s) ==
    /\ tasks[s].pc = "badge_load"
    /\ tasks' = [tasks EXCEPT ![s] =
           [@ EXCEPT !.pc = "badge_query",
                     !.loaded = getStorageData.tabTimestamps,
                     !.ts = getStorageData.tabTimestamps,
                     !.maxAge = MaxAgeMs(getStorageData.settings),
                     !.now = clock,
                     !.snap = <<>>, !.i = 0, !.removed = {}, !.threw = {}]]
    /\ UNCHANGED <<tabs, storeTs, storeSettings, alarms, badge, clock, budget>>

\* The query returns, the count is made and the badge is set.  What follows
\* updateBadge() in the listener runs up to its next await: onInstalled
\* creates the alarm, onStartup awaits alarms.get, the others return.
BadgeQuery(s) ==
    /\ tasks[s].pc = "badge_query"
    /\ \E q \in QueryResults :
         LET t == tasks[s]
             n == CountAtRisk(q, t.ts, t.now, t.maxAge, 1)
         IN  /\ badge' = BadgeText(n)
             /\ tasks' = [tasks EXCEPT ![s] =
                    [t EXCEPT !.snap = q, !.atRisk = n,
                              !.pc = IF t.kind = "startup" THEN "alarm_get" ELSE "done"]]
             /\ alarms' = IF t.kind = "installed"
                          THEN AlarmsCreate(ALARM_NAME, ALARM_PERIOD_MINUTES)
                          ELSE alarms
    /\ UNCHANGED <<tabs, storeTs, storeSettings, clock, budget>>

\* StartupAlarmGet without the create: the alarm is looked up and no more.
StartupAlarmGetOnly(s) ==
    /\ tasks[s].pc = "alarm_get"
    /\ alarms' = alarms
    /\ tasks' = [tasks EXCEPT ![s] =
           [@ EXCEPT !.pc = "done", !.existing = AlarmsGet(ALARM_NAME)]]
    /\ UNCHANGED <<tabs, storeTs, storeSettings, badge, clock, budget>>

\* onStartup: const existing = await browser.alarms.get(ALARM_NAME);
\* if (!existing) create it.
StartupAlarmGet(s) ==
    /\ tasks[s].pc = "alarm_get"
    /\ alarms' = IF AlarmsGet(ALARM_NAME) THEN alarms
                 ELSE AlarmsCreate(ALARM_NAME, ALARM_PERIOD_MINUTES)
    /\ tasks' = [tasks EXCEPT ![s] =
           [@ EXCEPT !.pc = "done", !.existing = AlarmsGet(ALARM_NAME)]]
    /\ UNCHANGED <<tabs, storeTs, storeSettings, badge, clock, budget>>

-----------------------------------------------------------------------------
(* tabs.onCreated *)

\* CreatedLoad that starts from an empty map instead of the loaded one.
CreatedLoadFresh(s) ==
    /\ tasks[s].pc = "created_load"
    /\ tasks' = [tasks EXCEPT ![s] =
           [@ EXCEPT !.pc = "created_save",
                     !.loaded = getStorageData.tabTimestamps,
                     !.now = clock,
                     !.ts = MapSet(EmptyMap, String(tasks[s].tab), clock)]]
    /\ UNCHANGED <<tabs, storeTs, storeSettings, alarms, badge, clock, budget>>

CreatedLoad(s) ==
    /\ tasks[s].pc = "created_load"
    /\ tasks' = [tasks EXCEPT ![s] =
           [@ EXCEPT !.pc = "created_save",
                     !.loaded = getStorageData.tabTimestamps,
                     !.now = clock,
                     !.ts = MapSet(getStorageData.tabTimestamps, String(tasks[s].tab), clock)]]
    /\ UNCHANGED <<tabs, storeTs, storeSettings, alarms, badge, clock, budget>>

CreatedSave(s) ==
    /\ tasks[s].pc = "created_save"
    /\ storeTs' = tasks[s].ts
    /\ tasks' = [tasks EXCEPT ![s] = [@ EXCEPT !.pc = "done"]]
    /\ UNCHANGED <<tabs, storeSettings, alarms, badge, clock, budget>>

-----------------------------------------------------------------------------
(* tabs.onActivated *)

ActivatedLoad(s) ==
    /\ tasks[s].pc = "activated_load"
    /\ tasks' = [tasks EXCEPT ![s] =
           [@ EXCEPT !.pc = "activated_get",
                     !.loaded = getStorageData.tabTimestamps,
                     !.now = clock,
                     !.ts = MapSet(getStorageData.tabTimestamps, String(tasks[s].tab), clock)]]
    /\ UNCHANGED <<tabs, storeTs, storeSettings, alarms, badge, clock, budget>>

\* browser.tabs.get(activeInfo.tabId): it rejects when the tab is gone, and
\* the listener ends there without saving.
ActivatedGet(s) ==
    /\ tasks[s].pc = "activated_get"
    /\ LET t == tasks[s]
       IN  tasks' = [tasks EXCEPT ![s] =
               IF t.tab \notin DOMAIN tabs
               THEN [t EXCEPT !.pc = "done", !.failed = TRUE]
               ELSE IF tabs[t.tab].url # ""
                    THEN [t EXCEPT !.pc = "activated_query", !.url = tabs[t.tab].url]
                    ELSE [t EXCEPT !.pc = "activated_save"]]
    /\ UNCHANGED <<tabs, storeTs, storeSettings, alarms, badge, clock, budget>>

\* ActivatedQuery with query({}) for query({url}): every live tab is a sibling.
ActivatedQueryAll(s) ==
    /\ tasks[s].pc = "activated_query"
    /\ LET t        == tasks[s]
           siblings == DOMAIN tabs
       IN  tasks' = [tasks EXCEPT ![s] =
               [t EXCEPT !.pc = "activated_save",
                         !.ts = MapSetAll(@, { String(id) : id \in siblings }, t.now)]]
    /\ UNCHANGED <<tabs, storeTs, storeSettings, alarms, badge, clock, budget>>

\* browser.tabs.query({url: activatedTab.url})
ActivatedQuery(s) ==
    /\ tasks[s].pc = "activated_query"
    /\ LET t        == tasks[s]
           siblings == { id \in DOMAIN tabs : tabs[id].url = t.url }
       IN  tasks' = [tasks EXCEPT ![s] =
               [t EXCEPT !.pc = "activated_save",
                         !.ts = MapSetAll(@, { String(id) : id \in siblings }, t.now)]]
    /\ UNCHANGED <<tabs, storeTs, storeSettings, alarms, badge, clock, budget>>

\* saveTimestamps(tabTimestamps), then updateBadge() starts.
ActivatedSave(s) ==
    /\ tasks[s].pc = "activated_save"
    /\ storeTs' = tasks[s].ts
    /\ tasks' = [tasks EXCEPT ![s] = [@ EXCEPT !.pc = "badge_load"]]
    /\ UNCHANGED <<tabs, storeSettings, alarms, badge, clock, budget>>

-----------------------------------------------------------------------------
(* tabs.onRemoved *)

\* RemovedLoad that saves an empty map instead of the loaded one less the tab.
RemovedLoadFresh(s) ==
    /\ tasks[s].pc = "removed_load"
    /\ tasks' = [tasks EXCEPT ![s] =
           [@ EXCEPT !.pc = "removed_save",
                     !.loaded = getStorageData.tabTimestamps,
                     !.ts = EmptyMap]]
    /\ UNCHANGED <<tabs, storeTs, storeSettings, alarms, badge, clock, budget>>

RemovedLoad(s) ==
    /\ tasks[s].pc = "removed_load"
    /\ tasks' = [tasks EXCEPT ![s] =
           [@ EXCEPT !.pc = "removed_save",
                     !.loaded = getStorageData.tabTimestamps,
                     !.ts = MapDelete(getStorageData.tabTimestamps, String(tasks[s].tab))]]
    /\ UNCHANGED <<tabs, storeTs, storeSettings, alarms, badge, clock, budget>>

\* RemovedSave that deletes the one key from the store as it is now.
RemovedSavePerKey(s) ==
    /\ tasks[s].pc = "removed_save"
    /\ storeTs' = MapDelete(storeTs, String(tasks[s].tab))
    /\ tasks' = [tasks EXCEPT ![s] = [@ EXCEPT !.pc = "done"]]
    /\ UNCHANGED <<tabs, storeSettings, alarms, badge, clock, budget>>

RemovedSave(s) ==
    /\ tasks[s].pc = "removed_save"
    /\ storeTs' = tasks[s].ts
    /\ tasks' = [tasks EXCEPT ![s] = [@ EXCEPT !.pc = "done"]]
    /\ UNCHANGED <<tabs, storeSettings, alarms, badge, clock, budget>>

-----------------------------------------------------------------------------
(* popup: the max-age change listener *)

\* MaxAgeRejected with < 0 for <= 0.
MaxAgeRejectedNegative(input) ==
    LET value == parseFloat(input)
    IN  isNaN(value) \/ value[1] < 0

\* const value = parseFloat(e.target.value);
\* if (isNaN(value) || value <= 0) return;
MaxAgeRejected(input) ==
    LET value == parseFloat(input)
    IN  isNaN(value) \/ value[1] <= 0

\* The user changes the field: the listener returns at once on a rejected
\* value, and otherwise awaits storage.local.set.
MaxAgeChange(input) ==
    /\ FreeSlots # {}
    /\ Spawn([NewTask("maxage", IF MaxAgeRejected(input) THEN "done" ELSE "maxage_set", 0)
                EXCEPT !.input = input,
                       !.failed = MaxAgeRejected(input),
                       !.val = IF MaxAgeRejected(input) THEN 0 ELSE parseFloat(input)[1]])
    /\ UNCHANGED <<tabs, storeTs, storeSettings, alarms, badge, clock>>
    /\ Occurs

\* MaxAgeSet that writes both keys: the settings and an empty tabTimestamps.
MaxAgeSetBothKeys(s) ==
    /\ tasks[s].pc = "maxage_set"
    /\ storeSettings' = <<[maxAgeDays |-> tasks[s].val]>>
    /\ storeTs' = EmptyMap
    /\ tasks' = [tasks EXCEPT ![s] = [@ EXCEPT !.pc = "done"]]
    /\ UNCHANGED <<tabs, alarms, badge, clock, budget>>

\* browser.storage.local.set({settings: {maxAgeDays: value}})
MaxAgeSet(s) ==
    /\ tasks[s].pc = "maxage_set"
    /\ storeSettings' = <<[maxAgeDays |-> tasks[s].val]>>
    /\ tasks' = [tasks EXCEPT ![s] = [@ EXCEPT !.pc = "done"]]
    /\ UNCHANGED <<tabs, storeTs, alarms, badge, clock, budget>>

-----------------------------------------------------------------------------
(* Storage failures *)

\* browser.storage.local.get rejects: getStorageData() throws into the
\* function awaiting it, no function of background.js catches, and the
\* listener ends there.
StorageGetRejects(s) ==
    /\ tasks[s].pc \in LoadPcs
    /\ tasks' = [tasks EXCEPT ![s] = [@ EXCEPT !.pc = "load_rejected"]]
    /\ UNCHANGED <<tabs, storeTs, storeSettings, alarms, badge, clock, budget>>

\* browser.storage.local.set rejects: nothing is written, saveTimestamps()
\* throws and the listener ends there.
StorageSetRejects(s) ==
    /\ tasks[s].pc \in SavePcs
    /\ tasks' = [tasks EXCEPT ![s] = [@ EXCEPT !.pc = "save_rejected"]]
    /\ UNCHANGED <<tabs, storeTs, storeSettings, alarms, badge, clock, budget>>

-----------------------------------------------------------------------------
(* The browser and the user *)

\* The browser gives a new tab an id that no tab had before: nothing the
\* extension holds, in the store or in a listener in progress, is about it.
FreshId(id) ==
    /\ id \notin DOMAIN tabs
    /\ String(id) \notin DOMAIN storeTs
    /\ \A s \in Slots :
          /\ tasks[s].tab # id
          /\ id \notin SnapIds(tasks[s].snap)
          /\ String(id) \notin (DOMAIN tasks[s].loaded) \cup (DOMAIN tasks[s].ts)

\* A tab opens in the background: onCreated fires.
TabCreated(id, url) ==
    /\ FreshId(id)
    /\ FreeSlots # {}
    /\ tabs' = [x \in (DOMAIN tabs) \cup {id} |->
                  IF x = id THEN [url |-> url, pinned |-> FALSE, active |-> FALSE]
                  ELSE tabs[x]]
    /\ Spawn(NewTask("created", "created_load", id))
    /\ UNCHANGED <<storeTs, storeSettings, alarms, badge, clock>>
    /\ Occurs

\* The user switches to a tab: onActivated fires.  The tab that was active in
\* the same window, if any, stops being active.
TabActivated(id, prev) ==
    /\ id \in DOMAIN tabs
    /\ ~tabs[id].active
    /\ prev = id \/ (prev \in DOMAIN tabs /\ tabs[prev].active)
    /\ FreeSlots # {}
    /\ tabs' = [x \in DOMAIN tabs |->
                  IF x = id THEN [tabs[x] EXCEPT !.active = TRUE]
                  ELSE IF x = prev THEN [tabs[x] EXCEPT !.active = FALSE]
                  ELSE tabs[x]]
    /\ Spawn(NewTask("activated", "activated_load", id))
    /\ UNCHANGED <<storeTs, storeSettings, alarms, badge, clock>>
    /\ Occurs

\* The user pins or unpins a tab: no listener of the extension hears it.
TabPinned(id) ==
    /\ id \in DOMAIN tabs
    /\ tabs' = [tabs EXCEPT ![id].pinned = ~@]
    /\ UNCHANGED <<storeTs, storeSettings, alarms, badge, clock, tasks>>
    /\ Occurs

\* The user closes a tab: onRemoved fires.
TabRemoved(id) ==
    /\ id \in DOMAIN tabs
    /\ FreeSlots # {}
    /\ tabs' = [x \in (DOMAIN tabs) \ {id} |-> tabs[x]]
    /\ Spawn(NewTask("removed", "removed_load", id))
    /\ UNCHANGED <<storeTs, storeSettings, alarms, badge, clock>>
    /\ Occurs

\* The periodic alarm fires: the onAlarm listener calls sweep().
AlarmFired ==
    /\ \E a \in alarms : a.name = ALARM_NAME
    /\ FreeSlots # {}
    /\ Spawn(NewTask("alarm", "sweep_load", 0))
    /\ UNCHANGED <<tabs, storeTs, storeSettings, alarms, badge, clock>>
    /\ Occurs

\* The extension is installed or updated: onInstalled fires.
ExtensionInstalled ==
    /\ FreeSlots # {}
    /\ Spawn(NewTask("installed", "init_load", 0))
    /\ UNCHANGED <<tabs, storeTs, storeSettings, alarms, badge, clock>>
    /\ Occurs

\* The browser restarts: the running listeners are gone, the tabs in keep are
\* restored and the others are gone without an onRemoved, the alarms are
\* kept or lost, and onStartup fires.
BrowserRestart(keep, keepAlarms) ==
    /\ keep \subseteq DOMAIN tabs
    /\ tabs' = [x \in keep |-> tabs[x]]
    /\ alarms' = IF keepAlarms THEN alarms ELSE {}
    /\ tasks' = [s \in Slots |-> IF s = 1 THEN NewTask("startup", "init_load", 0) ELSE Idle]
    /\ UNCHANGED <<storeTs, storeSettings, badge, clock>>
    /\ Occurs

\* Time passes.
Tick(t) ==
    /\ t > clock
    /\ clock' = t
    /\ UNCHANGED <<tabs, storeTs, storeSettings, alarms, badge, tasks>>
    /\ Occurs

\* A listener that has returned or thrown leaves its slot.
Return(s) ==
    /\ tasks[s].pc \in {"done", "load_rejected", "save_rejected"}
    /\ tasks' = [tasks EXCEPT ![s] = Idle]
    /\ UNCHANGED <<tabs, storeTs, storeSettings, alarms, badge, clock, budget>>

-----------------------------------------------------------------------------
(* The specification *)

\* Every set of live tabs over TabIds and Urls.
TabConfigs ==
    UNION { [ids -> [url : Urls, pinned : BOOLEAN, active : BOOLEAN]] : ids \in SUBSET TabIds }

\* Every timestamp map over the keys of TabIds whose entries were written at
\* instant 0 or at instant t.
StoredMaps(t) ==
    UNION { [keys -> {0, t}] : keys \in SUBSET { String(id) : id \in TabIds } }

\* The extension is running with no listener in progress: the browser has any
\* tabs, and storage holds what earlier listeners left.
InitRunning ==
    /\ tabs \in TabConfigs
    /\ clock \in Instants \ {0}
    /\ storeTs \in StoredMaps(clock)
    /\ storeSettings \in {<<>>, <<[maxAgeDays |-> 1]>>}
    /\ alarms = {[name |-> ALARM_NAME, periodInMinutes |-> ALARM_PERIOD_MINUTES]}
    /\ badge = <<>>
    /\ budget = MaxEvents
    /\ tasks = [s \in Slots |-> Idle]

Init == InitRunning

Next ==
    \/ \E s \in Slots : InitLoad(s)
    \/ \E s \in Slots : InitQuery(s)
    \/ \E s \in Slots : InitSave(s)
    \/ \E s \in Slots : SweepLoad(s)
    \/ \E s \in Slots : SweepQuery(s)
    \/ \E s \in Slots : SweepRemove(s)
    \/ \E s \in Slots : SweepSave(s)
    \/ \E s \in Slots : BadgeLoad(s)
    \/ \E s \in Slots : BadgeQuery(s)
    \/ \E s \in Slots : StartupAlarmGet(s)
    \/ \E s \in Slots : CreatedLoad(s)
    \/ \E s \in Slots : CreatedSave(s)
    \/ \E s \in Slots : ActivatedLoad(s)
    \/ \E s \in Slots : ActivatedGet(s)
    \/ \E s \in Slots : ActivatedQuery(s)
    \/ \E s \in Slots : ActivatedSave(s)
    \/ \E s \in Slots : RemovedLoad(s)
    \/ \E s \in Slots : RemovedSave(s)
    \/ \E s \in Slots : MaxAgeSet(s)
    \/ \E s \in Slots : StorageGetRejects(s)
    \/ \E s \in Slots : StorageSetRejects(s)
    \/ \E s \in Slots : Return(s)
    \/ \E input \in SettingsInputs : MaxAgeChange(input)
    \/ \E id \in TabIds, url \in Urls : TabCreated(id, url)
    \/ \E id \in TabIds, prev \in TabIds : TabActivated(id, prev)
    \/ \E id \in TabIds : TabPinned(id)
    \/ \E id \in TabIds : TabRemoved(id)
    \/ AlarmFired
    \/ ExtensionInstalled
    \/ \E keep \in SUBSET TabIds, keepAlarms \in BOOLEAN : BrowserRestart(keep, keepAlarms)
    \/ \E t \in Instants : Tick(t)

Spec == Init /\ [][Next]_vars

\* The extension is running with no listener in progress and two tabs with
\* the same URL, empty or not: tab 3 is active or not, both tabs have been
\* idle for longer than the stored TTL of one day, and time can still pass.
InitSeq ==
    /\ \E a \in BOOLEAN, u \in Urls :
         tabs = [id \in TabIds |-> [url |-> u, pinned |-> FALSE, active |-> a /\ id = 3]]
    /\ clock = MaxAgeMs(DEFAULT_SETTINGS) - ONE_HOUR - 1
    /\ storeTs = [k \in { String(id) : id \in TabIds } |-> 0]
    /\ storeSettings = <<[maxAgeDays |-> 1]>>
    /\ alarms = {[name |-> ALARM_NAME, periodInMinutes |-> ALARM_PERIOD_MINUTES]}
    /\ badge = <<>>
    /\ budget = MaxSeqEvents
    /\ tasks = [s \in Slots |-> Idle]

\* The same program followed over a sequence of events.
SpecSeq == InitSeq /\ [][Next]_vars

-----------------------------------------------------------------------------
(* The specification with the alarm firing period after period *)

\* The periodic alarm fires, as it does every ALARM_PERIOD_MINUTES for as long
\* as it exists: the onAlarm listener calls sweep().  A slot is left for the
\* onRemoved listener that a removal of the pass fires.
PeriodicAlarm ==
    /\ \E a \in alarms : a.name = ALARM_NAME
    /\ Cardinality(FreeSlots) >= 2
    /\ Spawn(NewTask("alarm", "sweep_load", 0))
    /\ UNCHANGED <<tabs, storeTs, storeSettings, alarms, badge, clock, budget>>

\* The browser resolves the promise the listener in slot s awaits.
TaskStep(s) ==
    \/ InitLoad(s) \/ InitQuery(s) \/ InitSave(s)
    \/ SweepLoad(s) \/ SweepQuery(s) \/ SweepRemove(s) \/ SweepSave(s)
    \/ BadgeLoad(s) \/ BadgeQuery(s) \/ StartupAlarmGet(s)
    \/ CreatedLoad(s) \/ CreatedSave(s)
    \/ ActivatedLoad(s) \/ ActivatedGet(s) \/ ActivatedQuery(s) \/ ActivatedSave(s)
    \/ RemovedLoad(s) \/ RemovedSave(s)
    \/ MaxAgeSet(s)
    \/ Return(s)

\* The extension is running with no listener in progress: tab 3 is open and
\* tracked, fresh or idle beyond the stored TTL of one day, and the store
\* still has the entry of tab 12, which went away with no onRemoved.
InitLive ==
    /\ tabs = [id \in {3} |-> [url |-> "a", pinned |-> FALSE, active |-> FALSE]]
    /\ clock = MaxAgeMs(DEFAULT_SETTINGS) - ONE_HOUR
    /\ \E v \in {0, clock} :
         storeTs = [k \in { String(id) : id \in TabIds } |-> IF k = String(3) THEN v ELSE 0]
    /\ storeSettings = <<[maxAgeDays |-> 1]>>
    /\ alarms = {[name |-> ALARM_NAME, periodInMinutes |-> ALARM_PERIOD_MINUTES]}
    /\ badge = <<>>
    /\ budget = MaxLiveEvents
    /\ tasks = [s \in Slots |-> Idle]

\* The alarm period after period, every storage call served, and the events
\* of the browser and the user.
NextLive ==
    \/ PeriodicAlarm
    \/ \E s \in Slots : TaskStep(s)
    \/ \E input \in SettingsInputs : MaxAgeChange(input)
    \/ \E id \in TabIds, url \in Urls : TabCreated(id, url)
    \/ \E id \in TabIds, prev \in TabIds : TabActivated(id, prev)
    \/ \E id \in TabIds : TabPinned(id)
    \/ \E id \in TabIds : TabRemoved(id)
    \/ ExtensionInstalled
    \/ \E keep \in SUBSET TabIds, keepAlarms \in BOOLEAN : BrowserRestart(keep, keepAlarms)
    \/ \E t \in Instants : Tick(t)

\* The alarm keeps firing and every promise a listener awaits is settled.
FairLive ==
    /\ WF_vars(PeriodicAlarm)
    /\ \A s \in Slots : WF_vars(TaskStep(s))

SpecLive == InitLive /\ [][NextLive]_vars /\ FairLive

-----------------------------------------------------------------------------
(* What a pass has done, read from its task *)

\* The sweep has saved its map (updateBadge is about to load).
SweepSaved(t) == t.kind = "alarm" /\ t.pc = "badge_load"

\* initializeTimestamps has saved its map.
InitSaved(t) == t.kind \in {"installed", "startup"} /\ t.pc = "badge_load"

\* The ids the sweep has called browser.tabs.remove with so far.
Requested(t) ==
    IF t.kind # "alarm" THEN {}
    ELSE IF t.pc = "sweep_remove" THEN t.removed \cup {t.snap[t.i].id}
    ELSE IF t.pc \in {"sweep_save", "badge_load"} THEN t.removed
    ELSE {}

\* The sweep has taken its snapshot.
HasSnapshot(t) == t.kind = "alarm" /\ t.pc \in {"sweep_remove", "sweep_save", "badge_load"}

\* The entry of tab id is in the map the pass saved, as it was loaded.
EntryKept(t, id) ==
    String(id) \in DOMAIN t.loaded =>
        String(id) \in DOMAIN t.ts /\ t.ts[String(id)] = t.loaded[String(id)]

\* The tab was tracked and idle for at least the TTL when the pass ran.
Expired(t, id) ==
    String(id) \in DOMAIN t.loaded /\ t.now - t.loaded[String(id)] >= t.maxAge

\* Some active or pinned tab of the snapshot has the URL of tab j.
SharesProtectedUrl(snap, j) ==
    \E i \in 1..Len(snap) : (snap[i].active \/ snap[i].pinned) /\ snap[i].url = snap[j].url

-----------------------------------------------------------------------------
(* C1 *)

\* C1: a sweep never calls tabs.remove for a tab that its snapshot shows active
\* or pinned, whatever the tab's timestamp, and the tab's entry is in the map
\* the pass saves, unchanged.
C1_ProtectionInvariant ==
    \A s \in Slots :
        LET t == tasks[s]
        IN  HasSnapshot(t) =>
              \A i \in 1..Len(t.snap) :
                  (t.snap[i].active \/ t.snap[i].pinned) =>
                      /\ t.snap[i].id \notin Requested(t)
                      /\ SweepSaved(t) => EntryKept(t, t.snap[i].id)

\* A pass has saved with an active tab and a pinned tab, both idle beyond the
\* TTL, and both entries are in the saved map.
C1_Witness ==
    \E s \in Slots :
        LET t == tasks[s]
        IN  /\ SweepSaved(t)
            /\ \E i, j \in 1..Len(t.snap) :
                  /\ t.snap[i].active /\ ~t.snap[i].pinned
                  /\ t.snap[j].pinned /\ ~t.snap[j].active
                  /\ Expired(t, t.snap[i].id) /\ Expired(t, t.snap[j].id)
                  /\ String(t.snap[i].id) \in DOMAIN t.ts
                  /\ String(t.snap[j].id) \in DOMAIN t.ts

-----------------------------------------------------------------------------
(* C2 *)

\* C2 as stated: when tab A is active or pinned in the snapshot and tab B has
\* the same URL as A, the sweep neither removes B nor deletes B's entry.
C2_SiblingAnyUrl ==
    \A s \in Slots :
        LET t == tasks[s]
        IN  HasSnapshot(t) =>
              \A j \in 1..Len(t.snap) :
                  SharesProtectedUrl(t.snap, j) =>
                      /\ t.snap[j].id \notin Requested(t)
                      /\ SweepSaved(t) => EntryKept(t, t.snap[j].id)

\* C2, amended: the same, when the URL the two tabs share is not empty.
C2_SiblingProtection ==
    \A s \in Slots :
        LET t == tasks[s]
        IN  HasSnapshot(t) =>
              \A j \in 1..Len(t.snap) :
                  (t.snap[j].url # "" /\ SharesProtectedUrl(t.snap, j)) =>
                      /\ t.snap[j].id \notin Requested(t)
                      /\ SweepSaved(t) => EntryKept(t, t.snap[j].id)

\* A pass has saved with a tab that is neither active nor pinned, idle beyond
\* the TTL, and kept because an active or pinned tab has its URL.
C2_Witness ==
    \E s \in Slots :
        LET t == tasks[s]
        IN  /\ SweepSaved(t)
            /\ \E i, j \in 1..Len(t.snap) :
                  /\ i # j
                  /\ t.snap[i].active \/ t.snap[i].pinned
                  /\ ~t.snap[j].active /\ ~t.snap[j].pinned
                  /\ t.snap[j].url = t.snap[i].url /\ t.snap[j].url # ""
                  /\ Expired(t, t.snap[j].id)
                  /\ String(t.snap[j].id) \in DOMAIN t.ts

-----------------------------------------------------------------------------
(* C3 *)

\* C3 as stated: a snapshot tab is removed iff it is not pinned, not active,
\* no active or pinned tab shares its URL, it has an entry and
\* now - timestamp >= ttl; a tab that is not removed keeps its entry.
C3_TtlAnyUrl ==
    \A s \in Slots :
        LET t == tasks[s]
        IN  SweepSaved(t) =>
              \A j \in 1..Len(t.snap) :
                  /\ t.snap[j].id \in t.removed <=>
                        /\ ~t.snap[j].pinned /\ ~t.snap[j].active
                        /\ ~SharesProtectedUrl(t.snap, j)
                        /\ Expired(t, t.snap[j].id)
                  /\ t.snap[j].id \notin t.removed => EntryKept(t, t.snap[j].id)

\* C3, amended: the same, where only a non-empty URL shared with an active or
\* pinned tab protects.
C3_TtlCorrectness ==
    \A s \in Slots :
        LET t == tasks[s]
        IN  SweepSaved(t) =>
              \A j \in 1..Len(t.snap) :
                  /\ t.snap[j].id \in t.removed <=>
                        /\ ~t.snap[j].pinned /\ ~t.snap[j].active
                        /\ ~(t.snap[j].url # "" /\ SharesProtectedUrl(t.snap, j))
                        /\ Expired(t, t.snap[j].id)
                  /\ t.snap[j].id \notin t.removed => EntryKept(t, t.snap[j].id)

\* A pass has saved after removing one tab and keeping another that is
\* tracked, unprotected and younger than the TTL.
C3_Witness ==
    \E s \in Slots :
        LET t == tasks[s]
        IN  /\ SweepSaved(t)
            /\ \E i, j \in 1..Len(t.snap) :
                  /\ t.snap[i].id \in t.removed
                  /\ t.snap[i].id \notin DOMAIN tabs
                  /\ ~t.snap[j].pinned /\ ~t.snap[j].active
                  /\ String(t.snap[j].id) \in DOMAIN t.loaded
                  /\ ~Expired(t, t.snap[j].id)
                  /\ t.snap[j].id \notin t.removed

-----------------------------------------------------------------------------
(* C4 *)

-----------------------------------------------------------------------------
(* C5 *)

\* C5: after a completed initializeTimestamps() or sweep() pass, every key of
\* the map the pass saved is the id of a tab in the snapshot the pass took.
C5_OrphanConvergence ==
    \A s \in Slots :
        LET t == tasks[s]
        IN  (SweepSaved(t) \/ InitSaved(t)) =>
              \A k \in DOMAIN t.ts : \E i \in 1..Len(t.snap) : String(t.snap[i].id) = k

\* A sweep has saved a map from which it dropped a loaded key of no snapshot
\* tab, while keeping a key of a snapshot tab.
C5_Witness ==
    \E s \in Slots :
        LET t == tasks[s]
        IN  /\ SweepSaved(t)
            /\ \E k \in DOMAIN t.loaded :
                  /\ \A i \in 1..Len(t.snap) : String(t.snap[i].id) # k
                  /\ k \notin DOMAIN t.ts
            /\ t.ts # EmptyMap

-----------------------------------------------------------------------------
(* C6 *)

\* The orders in which a later query can return the tabs of snap.
Reorderings(snap) ==
    { [i \in 1..Len(snap) |-> snap[f[i]]] :
        f \in { g \in [1..Len(snap) -> 1..Len(snap)] :
                  \A i, j \in 1..Len(snap) : i # j => g[i] # g[j] } }

\* C6: once initializeTimestamps() has saved, a second call that loads the map
\* it saved and queries the same tabs, at the same or any later instant,
\* computes that same map: same keys, same timestamp for every key.
C6_Idempotence ==
    \A s \in Slots :
        LET t == tasks[s]
        IN  InitSaved(t) =>
              \A q \in Reorderings(t.snap) :
                  \A n \in { x \in Instants : x >= t.now } :
                      initializeResult(t.ts, q, n) = t.ts

\* initializeTimestamps() has saved a map that differs from the one it loaded
\* by an entry added and an entry deleted, and a later instant exists for the
\* second call.
C6_Witness ==
    \E s \in Slots :
        LET t == tasks[s]
        IN  /\ InitSaved(t)
            /\ (DOMAIN t.ts) \ (DOMAIN t.loaded) # {}
            /\ (DOMAIN t.loaded) \ (DOMAIN t.ts) # {}
            /\ storeTs = t.ts
            /\ \E n \in Instants : n > t.now

-----------------------------------------------------------------------------
(* C7 *)

\* updateBadge() has made its count and set the badge.
BadgeDone(t) ==
    /\ t.kind \in {"installed", "startup", "activated", "alarm"}
    /\ t.pc \in {"done", "alarm_get"}
    /\ ~t.failed

\* ttl - idle for the tab at index j of the badge's snapshot.
Remaining(t, j) == t.maxAge - (t.now - t.ts[String(t.snap[j].id)])

\* C7 as stated: the count equals the number of snapshot tabs that are not
\* pinned, not active, share their URL with no active or pinned tab, have an
\* entry, and have 0 < ttl - idle <= 1 hour.
C7_CountAnyUrl ==
    \A s \in Slots :
        LET t == tasks[s]
        IN  BadgeDone(t) =>
              t.atRisk = Cardinality({ j \in 1..Len(t.snap) :
                             /\ ~t.snap[j].pinned /\ ~t.snap[j].active
                             /\ ~SharesProtectedUrl(t.snap, j)
                             /\ String(t.snap[j].id) \in DOMAIN t.ts
                             /\ 0 < Remaining(t, j)
                             /\ Remaining(t, j) <= 60 * 60 * 1000 })

\* C7, amended: the same, where only a non-empty URL shared with an active or
\* pinned tab protects.
C7_WarningWindow ==
    \A s \in Slots :
        LET t == tasks[s]
        IN  BadgeDone(t) =>
              t.atRisk = Cardinality({ j \in 1..Len(t.snap) :
                             /\ ~t.snap[j].pinned /\ ~t.snap[j].active
                             /\ ~(t.snap[j].url # "" /\ SharesProtectedUrl(t.snap, j))
                             /\ String(t.snap[j].id) \in DOMAIN t.ts
                             /\ 0 < Remaining(t, j)
                             /\ Remaining(t, j) <= 60 * 60 * 1000 })

\* updateBadge() has counted one tab, exactly an hour from expiry, of two
\* tracked tabs, and the badge shows the count.
C7_Witness ==
    \E s \in Slots :
        LET t == tasks[s]
        IN  /\ BadgeDone(t)
            /\ t.atRisk = 1
            /\ badge = <<"1">>
            /\ Len(t.snap) = 2
            /\ \A j \in 1..2 : String(t.snap[j].id) \in DOMAIN t.ts
            /\ \E j \in 1..2 : ~t.snap[j].pinned /\ ~t.snap[j].active
                                /\ Remaining(t, j) = 60 * 60 * 1000

-----------------------------------------------------------------------------
(* C8 *)

\* C8: no step of updateBadge() changes the stored timestamp map, the stored
\* settings or the live tabs.
C8_BadgeFrame ==
    [][ \A s \in Slots :
          (BadgeLoad(s) \/ BadgeQuery(s)) =>
              /\ storeTs' = storeTs
              /\ storeSettings' = storeSettings
              /\ tabs' = tabs ]_vars

\* updateBadge() has counted a tab at risk and set the badge, and the tab is
\* still open and tracked.
C8_Witness ==
    \E s \in Slots :
        LET t == tasks[s]
        IN  /\ BadgeDone(t)
            /\ t.atRisk > 0
            /\ badge = String(t.atRisk)
            /\ storeTs = t.ts
            /\ \A j \in 1..Len(t.snap) : t.snap[j].id \in DOMAIN tabs

-----------------------------------------------------------------------------
(* C9 *)

\* The field holds a number: an optional minus sign and digits, nothing else.
IsNumeric(input) ==
    LET body == IF input # <<>> /\ Head(input) = "-" THEN Tail(input) ELSE input
    IN  body # <<>> /\ \A i \in 1..Len(body) : IsDigit(body[i])

NumericValue(input) ==
    IF Head(input) = "-" THEN 0 - DigitsValue(Tail(input)) ELSE DigitsValue(input)

Accepted(input) == IsNumeric(input) /\ NumericValue(input) > 0

-----------------------------------------------------------------------------
(* C10 *)

\* The map a listener loaded, with the entry of tab id set to v.
LoadedWith(t, id, v) ==
    [k \in (DOMAIN t.loaded) \cup {String(id)} |->
        IF k = String(id) THEN v ELSE t.loaded[k]]

\* C10: the onCreated listener of tab t saves the map it loaded with the entry
\* of t set to the listener's Date.now() and every other entry unchanged.
C10_CreatedSetsTimestamp ==
    /\ [](\A s \in Slots :
            (tasks[s].kind = "created" /\ tasks[s].pc \in {"created_save", "done"})
               => tasks[s].ts = LoadedWith(tasks[s], tasks[s].tab, tasks[s].now))
    /\ [][ \A s \in Slots :
             (tasks[s].kind = "created" /\ tasks[s].pc = "created_save" /\ tasks'[s].pc = "done")
                => storeTs' = LoadedWith(tasks[s], tasks[s].tab, tasks[s].now) ]_vars
    /\ [][ \A s \in Slots :
             (tasks[s].kind = "created" /\ tasks[s].pc = "created_load" /\ tasks'[s].pc = "created_save")
                => tasks'[s].now = clock /\ tasks'[s].loaded = storeTs ]_vars

\* The onCreated listener of a tab has returned: the stored map has the new
\* entry, at a later instant than the other entry it loaded.
C10_Witness ==
    \E s \in Slots :
        LET t == tasks[s]
        IN  /\ t.kind = "created" /\ t.pc = "done"
            /\ storeTs = t.ts
            /\ String(t.tab) \notin DOMAIN t.loaded
            /\ \E k \in DOMAIN t.loaded : t.loaded[k] < t.now /\ storeTs[k] = t.loaded[k]
            /\ storeTs[String(t.tab)] = t.now

-----------------------------------------------------------------------------
(* C11 *)

\* The onActivated listener has saved its map (updateBadge is about to load).
ActivatedSaved(t) == t.kind = "activated" /\ t.pc = "badge_load"

\* The live tabs on the page of URL url.
LiveWithUrl(url) == { id \in DOMAIN tabs : tabs[id].url = url }

\* The map a listener loaded, with the entry of every id of ids set to v.
LoadedWithAll(t, ids, v) ==
    [k \in (DOMAIN t.loaded) \cup { String(id) : id \in ids } |->
        IF k \in { String(id) : id \in ids } THEN v ELSE t.loaded[k]]

\* C11 as stated: the map the onActivated listener of tab t saves holds the
\* listener's now for t and for every live tab whose URL equals t's URL.
C11_ActivatedAnyUrl ==
    \A s \in Slots :
        LET t == tasks[s]
        IN  (ActivatedSaved(t) /\ t.tab \in DOMAIN tabs) =>
              \A id \in LiveWithUrl(tabs[t.tab].url) :
                  String(id) \in DOMAIN t.ts /\ t.ts[String(id)] = t.now

\* C11, amended: the onActivated listener of tab t takes its now when it loads;
\* when t's URL is not empty, the map it then builds is the one it loaded with
\* the entries of t and of every tab live on t's URL at the sibling query set
\* to that now; when t's URL is empty only t's entry is set; every other entry
\* is as loaded, and that map is what the listener saves.
C11_ActivatedSetsSiblings ==
    /\ [][ \A s \in Slots :
             (tasks[s].pc = "activated_load" /\ tasks'[s].pc = "activated_get")
                => /\ tasks'[s].now = clock /\ tasks'[s].loaded = storeTs
                   /\ tasks'[s].ts = LoadedWith(tasks'[s], tasks[s].tab, clock) ]_vars
    /\ [][ \A s \in Slots :
             (tasks[s].pc = "activated_get" /\ tasks'[s].pc = "activated_query")
                => /\ tasks'[s].url = tabs[tasks[s].tab].url /\ tasks'[s].url # ""
                   /\ tasks'[s].ts = tasks[s].ts ]_vars
    /\ [][ \A s \in Slots :
             (tasks[s].pc = "activated_get" /\ tasks'[s].pc = "activated_save")
                => /\ tabs[tasks[s].tab].url = ""
                   /\ tasks'[s].ts = LoadedWith(tasks[s], tasks[s].tab, tasks[s].now) ]_vars
    /\ [][ \A s \in Slots :
             (tasks[s].pc = "activated_query" /\ tasks'[s].pc = "activated_save")
                => tasks'[s].ts =
                     LoadedWithAll(tasks[s], {tasks[s].tab} \cup LiveWithUrl(tasks[s].url),
                                   tasks[s].now) ]_vars
    /\ [][ \A s \in Slots :
             (tasks[s].pc = "activated_save" /\ ActivatedSaved(tasks'[s]))
                => storeTs' = tasks[s].ts ]_vars

\* The onActivated listener of a tab has saved: the stored map holds its now
\* for the tab and for the other live tab on the same page, whose entry was
\* older when the listener loaded.
C11_Witness ==
    \E s \in Slots :
        LET t == tasks[s]
        IN  /\ ActivatedSaved(t)
            /\ storeTs = t.ts
            /\ t.url # ""
            /\ \E id \in LiveWithUrl(t.url) :
                  /\ id # t.tab
                  /\ String(id) \in DOMAIN t.loaded
                  /\ t.loaded[String(id)] < t.now
                  /\ storeTs[String(id)] = t.now
            /\ storeTs[String(t.tab)] = t.now

-----------------------------------------------------------------------------
(* C12 *)

\* The map a listener loaded, without the entry of tab id.
LoadedWithout(t, id) ==
    [k \in (DOMAIN t.loaded) \ {String(id)} |-> t.loaded[k]]

\* C12: the onRemoved listener of tab t saves the map it loaded without the
\* entry of t and with every other entry unchanged.
C12_RemovedDeletesEntry ==
    /\ [](\A s \in Slots :
            (tasks[s].kind = "removed" /\ tasks[s].pc \in {"removed_save", "done"})
               => /\ String(tasks[s].tab) \notin DOMAIN tasks[s].ts
                  /\ tasks[s].ts = LoadedWithout(tasks[s], tasks[s].tab))
    /\ [][ \A s \in Slots :
             (tasks[s].pc = "removed_load" /\ tasks'[s].pc = "removed_save")
                => tasks'[s].loaded = storeTs ]_vars
    /\ [][ \A s \in Slots :
             (tasks[s].pc = "removed_save" /\ tasks'[s].pc = "done")
                => storeTs' = LoadedWithout(tasks[s], tasks[s].tab) ]_vars

\* The onRemoved listener of a closed tab has returned: the stored map has
\* lost the tab's entry and kept the other entry it loaded.
C12_Witness ==
    \E s \in Slots :
        LET t == tasks[s]
        IN  /\ t.kind = "removed" /\ t.pc = "done"
            /\ t.tab \notin DOMAIN tabs
            /\ storeTs = t.ts
            /\ String(t.tab) \in DOMAIN t.loaded
            /\ String(t.tab) \notin DOMAIN storeTs
            /\ \E k \in DOMAIN storeTs : storeTs[k] = t.loaded[k]

-----------------------------------------------------------------------------
(* C13 *)

\* The sweep has loaded the store and has not saved yet.
SweepInProgress(t) ==
    t.kind = "alarm" /\ t.pc \in {"sweep_query", "sweep_remove", "sweep_save"}

\* C13: two sweep passes never overlap: no state has two passes that have both
\* loaded and not yet saved.
C13_NoSweepOverlap ==
    \A s1, s2 \in Slots :
        (SweepInProgress(tasks[s1]) /\ SweepInProgress(tasks[s2])) => s1 = s2

\* Two passes are in progress at once, the second started by the alarm a
\* full period after the first loaded.
C13_Witness ==
    \E s1, s2 \in Slots :
        /\ s1 # s2
        /\ SweepInProgress(tasks[s1]) /\ SweepInProgress(tasks[s2])
        /\ tasks[s2].now - tasks[s1].now >= ALARM_PERIOD_MINUTES * 60 * 1000

-----------------------------------------------------------------------------
(* C14 *)

\* The entry of key k in map m: <<>> when there is none.
EntryOf(m, k) == IF k \in DOMAIN m THEN <<m[k]>> ELSE <<>>

\* The load-mutate-save cycle of the task has saved and its maps are still
\* in its record.
CycleSaved(t) ==
    \/ t.kind \in {"created", "removed"} /\ t.pc = "done"
    \/ t.kind \in {"activated", "alarm", "installed", "startup"} /\ t.pc = "badge_load"

\* C14: every save replaces the whole stored map by the map its cycle built
\* from what it loaded, whatever the store has become since.
C14_LastSaveWins ==
    [][ \A s \in Slots :
          (tasks[s].pc \in SavePcs /\ tasks'[s].kind = tasks[s].kind
             /\ tasks'[s].pc \in {"done", "badge_load"})
            => storeTs' = tasks[s].ts ]_vars

\* Two cycles loaded the same map before either saved, each changed a key
\* the other left alone, and the store holds the map of one of them: the
\* other's change to its key is lost.
C14_Witness ==
    \E s1, s2 \in Slots :
        LET t1 == tasks[s1]
            t2 == tasks[s2]
        IN  /\ s1 # s2
            /\ CycleSaved(t1) /\ CycleSaved(t2)
            /\ t1.loaded = t2.loaded
            /\ storeTs = t2.ts
            /\ \E k1, k2 \in DOMAIN t1.loaded :
                  /\ k1 # k2
                  /\ EntryOf(t1.ts, k1) # EntryOf(t1.loaded, k1)
                  /\ EntryOf(t2.ts, k1) = EntryOf(t2.loaded, k1)
                  /\ EntryOf(t2.ts, k2) # EntryOf(t2.loaded, k2)
                  /\ EntryOf(t1.ts, k2) = EntryOf(t1.loaded, k2)
                  /\ EntryOf(storeTs, k1) = EntryOf(t1.loaded, k1)

-----------------------------------------------------------------------------
(* C15 *)

\* The alarms named ALARM_NAME.
SweepAlarms == { a \in alarms : a.name = ALARM_NAME }

-----------------------------------------------------------------------------
(* C16 *)

\* The listener has thrown on a rejected storage call.
Rejected(t) == t.pc \in {"load_rejected", "save_rejected"}

\* C16: a step in which a load or a save is rejected leaves the stored map as
\* it is; a listener that has thrown takes no further step; and the stored
\* map changes only in the step of a save that succeeds, which writes the
\* whole map of its pass: a pass that fails has written nothing.
C16_NoPartialSave ==
    /\ [][ \A s \in Slots :
             (~Rejected(tasks[s]) /\ Rejected(tasks'[s])) => storeTs' = storeTs ]_vars
    /\ [][ \A s \in Slots :
             Rejected(tasks[s]) =>
                \/ tasks'[s] = tasks[s]
                \/ tasks'[s] = Idle
                \/ tasks'[s] = NewTask("startup", "init_load", 0) ]_vars
    /\ [][ storeTs' # storeTs =>
             \E s \in Slots :
                /\ tasks[s].pc \in SavePcs
                /\ tasks'[s].pc \in {"done", "badge_load"}
                /\ storeTs' = tasks[s].ts ]_vars

\* A sweep has thrown at its save after closing a tab and deleting the tab's
\* entry from its map: the store still holds the map the pass loaded.
C16_Witness ==
    \E s \in Slots :
        LET t == tasks[s]
        IN  /\ t.kind = "alarm" /\ t.pc = "save_rejected"
            /\ t.removed # {}
            /\ t.ts # t.loaded
            /\ storeTs = t.loaded

-----------------------------------------------------------------------------
(* C17 *)

\* The tab at index j of the pass's snapshot is one the loop removes: not
\* pinned, not active, on no protected page, tracked and idle for the TTL.
Removable(t, j) ==
    /\ ~t.snap[j].pinned /\ ~t.snap[j].active
    /\ ~(t.snap[j].url # "" /\ SharesProtectedUrl(t.snap, j))
    /\ Expired(t, t.snap[j].id)

\* C17: when tabs.remove throws because the tab is gone, the pass goes on to
\* its next removal or to its save; the entry of every tab whose removal
\* threw is deleted from the pass's map; and the pass that saves has
\* requested the removal of every removable tab of its snapshot, those after
\* the throw included.
C17_RemovalFailureTolerated ==
    /\ [][ \A s \in Slots :
             (tasks[s].pc = "sweep_remove"
                /\ tasks[s].snap[tasks[s].i].id \notin DOMAIN tabs
                /\ tasks'[s] # tasks[s] /\ tasks'[s].kind = "alarm")
               => /\ tasks'[s].pc \in {"sweep_remove", "sweep_save"}
                  /\ tasks'[s].i > tasks[s].i
                  /\ String(tasks[s].snap[tasks[s].i].id) \notin DOMAIN tasks'[s].ts ]_vars
    /\ [](\A s \in Slots :
            LET t == tasks[s]
            IN  (HasSnapshot(t) /\ t.threw # {}) =>
                  /\ \A id \in t.threw :
                        id \in t.removed /\ String(id) \notin DOMAIN t.ts
                  /\ SweepSaved(t) =>
                        \A j \in 1..Len(t.snap) :
                            Removable(t, j) <=> t.snap[j].id \in t.removed)

\* A pass has saved after a removal that threw, the tab having been closed
\* since the snapshot, and after then closing a later tab of the snapshot.
C17_Witness ==
    \E s \in Slots :
        LET t == tasks[s]
        IN  /\ SweepSaved(t)
            /\ storeTs = t.ts
            /\ \E i, j \in 1..Len(t.snap) :
                  /\ i < j
                  /\ t.snap[i].id \in t.threw
                  /\ t.snap[j].id \in t.removed \ t.threw

-----------------------------------------------------------------------------
(* C18 *)

\* The sweep, its updateBadge() included, has returned; its record holds the
\* map and the tabs updateBadge() read after the pass saved.
SweepReturned(t) == t.kind = "alarm" /\ t.pc = "done"

\* C18 as stated, first half: with tabs A and B sharing a URL, A active and B
\* idle for the TTL or longer, a sweep does not remove B.
C18_SiblingAnyUrl ==
    \A s \in Slots :
        LET t == tasks[s]
        IN  HasSnapshot(t) =>
              \A i, j \in 1..Len(t.snap) :
                  ( /\ i # j
                    /\ t.snap[i].active
                    /\ t.snap[i].url = t.snap[j].url
                    /\ Expired(t, t.snap[j].id) )
                  => t.snap[j].id \notin Requested(t)

\* C18, amended: with A and B sharing a non-empty URL, A active and B idle
\* for the TTL or longer, a sweep does not remove B; and a pass whose own
\* snapshot has no active or pinned tab on B's non-empty URL removes B when B
\* is neither active nor pinned and idle for the TTL or longer, whatever any
\* earlier pass saw.
C18_SiblingWhileInSnapshot ==
    \A s \in Slots :
        LET t == tasks[s]
        IN  HasSnapshot(t) =>
              /\ \A i, j \in 1..Len(t.snap) :
                    ( /\ i # j
                      /\ t.snap[i].active
                      /\ t.snap[i].url = t.snap[j].url /\ t.snap[j].url # ""
                      /\ Expired(t, t.snap[j].id) )
                    => t.snap[j].id \notin Requested(t)
              /\ SweepSaved(t) =>
                    \A j \in 1..Len(t.snap) :
                        ( /\ ~t.snap[j].active /\ ~t.snap[j].pinned
                          /\ ~(t.snap[j].url # "" /\ SharesProtectedUrl(t.snap, j))
                          /\ Expired(t, t.snap[j].id) )
                        => t.snap[j].id \in t.removed

\* A first sweep has returned with B still open, tracked and idle beyond the
\* TTL beside the active tab A on the same non-empty URL; A has been closed;
\* and a second sweep, whose snapshot has B and not A, has requested B's
\* removal.
C18_Witness ==
    \E s1, s2 \in Slots :
        LET t1 == tasks[s1]
            t2 == tasks[s2]
        IN  /\ SweepReturned(t1)
            /\ HasSnapshot(t2)
            /\ \E i, j \in 1..Len(t1.snap) :
                  /\ t1.snap[i].active
                  /\ ~t1.snap[j].active /\ ~t1.snap[j].pinned
                  /\ t1.snap[i].url = t1.snap[j].url /\ t1.snap[j].url # ""
                  /\ String(t1.snap[j].id) \in DOMAIN t1.ts
                  /\ t1.now - t1.ts[String(t1.snap[j].id)] >= t1.maxAge
                  /\ t1.snap[i].id \notin DOMAIN tabs
                  /\ t1.snap[i].id \notin SnapIds(t2.snap)
                  /\ t1.snap[j].id \in Requested(t2)

-----------------------------------------------------------------------------
(* C19 *)

\* C19: when a tab has been activated and then closed, once its onActivated
\* and onRemoved listeners have both returned the stored map has no entry
\* for it.
C19_ActivationThenRemoval ==
    \A s1, s2 \in Slots :
        LET t1 == tasks[s1]
            t2 == tasks[s2]
        IN  ( /\ t1.kind = "activated" /\ t1.pc = "done" /\ ~t1.failed
              /\ t2.kind = "removed" /\ t2.pc = "done"
              /\ t1.tab = t2.tab
              /\ t1.tab \notin DOMAIN tabs )
            => String(t1.tab) \notin DOMAIN storeTs

\* The tab was activated and then closed; its onRemoved listener has returned
\* after saving a map without the tab's entry, and the onActivated listener
\* has then saved the map it built before the tab was closed: the store has
\* the entry of the closed tab.
C19_Witness ==
    \E s1, s2 \in Slots :
        LET t1 == tasks[s1]
            t2 == tasks[s2]
        IN  /\ ActivatedSaved(t1)
            /\ t2.kind = "removed" /\ t2.pc = "done"
            /\ t1.tab = t2.tab
            /\ t1.tab \notin DOMAIN tabs
            /\ String(t1.tab) \notin DOMAIN t2.ts
            /\ storeTs = t1.ts
            /\ storeTs[String(t1.tab)] = t1.now

-----------------------------------------------------------------------------
(* C20 *)

\* C20: the tabs a pass removed and the map it saved are those the loop and
\* the clean-up give for every other order of the same snapshot, with the
\* map the pass loaded, its TTL and its now.
C20_OrderIndependence ==
    \A s \in Slots :
        LET t == tasks[s]
        IN  SweepSaved(t) =>
              \A q \in Reorderings(t.snap) :
                  SweepLoop(q, t.loaded, t.now, t.maxAge, 1, {})
                     = [removed |-> t.removed, ts |-> t.ts]

\* A pass over a snapshot of two tabs, which has two orders, has saved after
\* removing one tab and keeping the other.
C20_Witness ==
    \E s \in Slots :
        LET t == tasks[s]
        IN  /\ SweepSaved(t)
            /\ Len(t.snap) = 2
            /\ Cardinality(Reorderings(t.snap)) = 2
            /\ Cardinality(t.removed) = 1
            /\ Cardinality(DOMAIN t.ts) = 1
            /\ storeTs = t.ts

-----------------------------------------------------------------------------
(* C21 *)

\* C21: no tab has its removal requested by two sweep passes.
C21_NoDoubleRemoval ==
    \A s1, s2 \in Slots :
        s1 # s2 => Requested(tasks[s1]) \cap Requested(tasks[s2]) = {}

\* Two passes that took their snapshots while the tab was open are both
\* awaiting tabs.remove for it.
C21_Witness ==
    \E s1, s2 \in Slots :
        LET t1 == tasks[s1]
            t2 == tasks[s2]
        IN  /\ s1 # s2
            /\ t1.kind = "alarm" /\ t1.pc = "sweep_remove"
            /\ t2.kind = "alarm" /\ t2.pc = "sweep_remove"
            /\ t1.snap[t1.i].id = t2.snap[t2.i].id
            /\ t1.snap[t1.i].id \in DOMAIN tabs

-----------------------------------------------------------------------------
(* C22 *)

\* The store has an entry for tab id and the tab is not open.
Orphan(id) == String(id) \in DOMAIN storeTs /\ id \notin DOMAIN tabs

\* C22: with the alarm firing period after period and every awaited call
\* served, whenever the store has an entry for a tab that is not open, a
\* later state has no such entry for that id.
C22_OrphansTransient ==
    \A id \in TabIds : Orphan(id) ~> ~Orphan(id)

\* A sweep started by the periodic alarm has saved a map without the entry of
\* tab 12, which it loaded and which none of its snapshot's tabs has, and no
\* entry of a closed tab is left in the store.
C22_Witness ==
    \E s \in Slots :
        LET t == tasks[s]
        IN  /\ SweepSaved(t)
            /\ String(12) \in DOMAIN t.loaded
            /\ 12 \notin SnapIds(t.snap)
            /\ storeTs = t.ts
            /\ \A id \in TabIds : ~Orphan(id)

-----------------------------------------------------------------------------
(* C23 *)

\* No listener is in flight.
AllFinished == \A s \in Slots : tasks[s].pc \in {"idle", "done"}

\* C23: once no listener is in flight, every open tab whose onCreated
\* listener has returned, or that the updateBadge() of a returned onInstalled
\* or onStartup listener saw, has an entry in the store.
C23_TrackingComplete ==
    AllFinished =>
        \A s \in Slots :
            LET t == tasks[s]
            IN  /\ (t.kind = "created" /\ t.pc = "done" /\ t.tab \in DOMAIN tabs)
                    => String(t.tab) \in DOMAIN storeTs
                /\ (t.kind \in {"installed", "startup"} /\ t.pc = "done")
                    => \A i \in 1..Len(t.snap) :
                          t.snap[i].id \in DOMAIN tabs
                             => String(t.snap[i].id) \in DOMAIN storeTs

\* A tab was opened while another tab was being activated; both listeners
\* have returned, the onActivated listener having saved last the map it
\* loaded before the new tab's entry was stored: the new tab is open and has
\* no entry.
C23_Witness ==
    \E s1, s2 \in Slots :
        LET t1 == tasks[s1]
            t2 == tasks[s2]
        IN  /\ t1.kind = "created" /\ t1.pc = "done"
            /\ t2.kind = "activated" /\ t2.pc = "done" /\ ~t2.failed
            /\ t1.tab # t2.tab
            /\ t1.tab \in DOMAIN tabs /\ t2.tab \in DOMAIN tabs
            /\ String(t1.tab) \in DOMAIN t1.ts
            /\ String(t1.tab) \notin DOMAIN storeTs
            /\ String(t2.tab) \in DOMAIN storeTs

-----------------------------------------------------------------------------
(* C24 *)

\* C24: every entry of the map a sweep saves was in the map it loaded, with
\* the same timestamp; every entry of the map initializeTimestamps() saves
\* either was in the map it loaded, with the same timestamp, or is the entry
\* of a queried tab that had none, with the pass's now.
C24_NoRefresh ==
    \A s \in Slots :
        LET t == tasks[s]
        IN  /\ SweepSaved(t) =>
                 \A k \in DOMAIN t.ts :
                     k \in DOMAIN t.loaded /\ t.ts[k] = t.loaded[k]
            /\ InitSaved(t) =>
                 \A k \in DOMAIN t.ts :
                     IF k \in DOMAIN t.loaded
                     THEN t.ts[k] = t.loaded[k]
                     ELSE /\ t.ts[k] = t.now
                          /\ \E i \in 1..Len(t.snap) : String(t.snap[i].id) = k

\* initializeTimestamps() has saved a map that keeps an entry older than its
\* now, as loaded, beside an entry it inserted with its now.
C24_Witness ==
    \E s \in Slots :
        LET t == tasks[s]
        IN  /\ InitSaved(t)
            /\ storeTs = t.ts
            /\ \E k \in DOMAIN t.loaded :
                  k \in DOMAIN t.ts /\ t.loaded[k] < t.now /\ t.ts[k] = t.loaded[k]
            /\ \E k \in DOMAIN t.ts : k \notin DOMAIN t.loaded /\ t.ts[k] = t.now

-----------------------------------------------------------------------------
(* C25 *)

\* C25: a step in which saveTimestamps() succeeds leaves the stored settings
\* as they are; the step in which the popup stores the settings leaves the
\* stored timestamp map as it is; and no step changes both.
C25_KeysIndependent ==
    /\ [][ \A s \in Slots :
             (tasks[s].pc \in SavePcs /\ tasks'[s].kind = tasks[s].kind
                /\ tasks'[s].pc \in {"done", "badge_load"})
               => storeSettings' = storeSettings ]_vars
    /\ [][ \A s \in Slots :
             (tasks[s].pc = "maxage_set" /\ tasks'[s].pc = "done")
               => storeTs' = storeTs ]_vars
    /\ [][ storeTs' # storeTs => storeSettings' = storeSettings ]_vars

\* The user stored a TTL of 2 days after a sweep had loaded the TTL of 1 day;
\* the sweep has changed the map and saved it: the store holds the sweep's
\* map and the user's settings.
C25_Witness ==
    \E s1, s2 \in Slots :
        LET t1 == tasks[s1]
            t2 == tasks[s2]
        IN  /\ SweepSaved(t1)
            /\ t1.maxAge = MaxAgeMs([maxAgeDays |-> 1])
            /\ t1.ts # t1.loaded
            /\ storeTs = t1.ts
            /\ t2.kind = "maxage" /\ t2.pc = "done" /\ ~t2.failed
            /\ storeSettings = <<[maxAgeDays |-> 2]>>

-----------------------------------------------------------------------------
(* C26 *)

\* ttl - idle for the tab at index j of the snapshot, by the map m.
RemainingBy(t, m, j) == t.maxAge - (t.now - m[String(t.snap[j].id)])

\* The snapshot tabs updateBadge() would count, given the map m.
AtRiskSet(t, m) ==
    { j \in 1..Len(t.snap) :
        AtRisk(t.snap[j], m, t.now, t.maxAge, protectedUrls(t.snap)) }

\* The snapshot tabs sweep() would remove, given the map m.
RemovableSet(t, m) ==
    { j \in 1..Len(t.snap) :
        ShouldRemove(t.snap[j], m, t.now, t.maxAge, protectedUrls(t.snap)) }

\* The tab at index j passes the skips both loops make.
Eligible(t, m, j) ==
    /\ ~t.snap[j].pinned /\ ~t.snap[j].active
    /\ ~(t.snap[j].url # "" /\ t.snap[j].url \in protectedUrls(t.snap))
    /\ String(t.snap[j].id) \in DOMAIN m

\* C26: for the snapshot, map, TTL and now of a sweep (and of a badge
\* update), no tab is both at risk and removable; a tab with remaining = 0
\* that passes the skips is removable and not at risk; a tab with an entry
\* and remaining > 0 is not removable, and the sweep never calls
\* tabs.remove with it; every tab the sweep removes is outside the at-risk set.
C26_AtRiskRemovableDisjoint ==
    \A s \in Slots :
        LET t == tasks[s]
        IN  /\ HasSnapshot(t) =>
                /\ AtRiskSet(t, t.loaded) \cap RemovableSet(t, t.loaded) = {}
                /\ \A j \in 1..Len(t.snap) :
                     /\ (Eligible(t, t.loaded, j) /\ RemainingBy(t, t.loaded, j) = 0)
                          => /\ j \in RemovableSet(t, t.loaded)
                             /\ j \notin AtRiskSet(t, t.loaded)
                     /\ (String(t.snap[j].id) \in DOMAIN t.loaded
                           /\ RemainingBy(t, t.loaded, j) > 0)
                          => /\ j \notin RemovableSet(t, t.loaded)
                             /\ t.snap[j].id \notin Requested(t)
                     /\ t.snap[j].id \in Requested(t) => j \notin AtRiskSet(t, t.loaded)
            /\ BadgeDone(t) =>
                /\ AtRiskSet(t, t.ts) \cap RemovableSet(t, t.ts) = {}
                /\ t.atRisk = Cardinality(AtRiskSet(t, t.ts))
                /\ t.atRisk <= Len(t.snap) - Cardinality(RemovableSet(t, t.ts))

\* A sweep's snapshot holds a tab idle for exactly the TTL (remaining = 0):
\* it is outside the at-risk set, and the sweep has called tabs.remove with it.
C26_Witness ==
    \E s \in Slots :
        LET t == tasks[s]
        IN  /\ HasSnapshot(t)
            /\ \E j \in 1..Len(t.snap) :
                 /\ Eligible(t, t.loaded, j)
                 /\ RemainingBy(t, t.loaded, j) = 0
                 /\ j \notin AtRiskSet(t, t.loaded)
                 /\ t.snap[j].id \in Requested(t)

-----------------------------------------------------------------------------
(* C27 *)

\* The tab at index j of the snapshot has an empty URL and is neither active
\* nor pinned.
EmptyUrlCandidate(snap, j) ==
    snap[j].url = "" /\ ~snap[j].active /\ ~snap[j].pinned

\* C27: the protected set of a sweep's or a badge update's snapshot never
\* holds the empty URL; a tab with an empty URL that is neither active nor
\* pinned is removed by the sweep exactly when it is tracked and idle for the
\* TTL or longer, and counted by updateBadge() exactly when it is tracked and
\* 0 < remaining <= 1 hour, whatever the other tabs of the snapshot are.
C27_EmptyUrlUnprotected ==
    \A s \in Slots :
        LET t == tasks[s]
        IN  /\ HasSnapshot(t) =>
                /\ "" \notin protectedUrls(t.snap)
                /\ \A j \in 1..Len(t.snap) :
                     EmptyUrlCandidate(t.snap, j) =>
                       /\ j \in RemovableSet(t, t.loaded) <=> Expired(t, t.snap[j].id)
                       /\ t.snap[j].id \in Requested(t) => Expired(t, t.snap[j].id)
                       /\ SweepSaved(t) =>
                            (t.snap[j].id \in t.removed <=> Expired(t, t.snap[j].id))
            /\ BadgeDone(t) =>
                /\ "" \notin protectedUrls(t.snap)
                /\ \A j \in 1..Len(t.snap) :
                     EmptyUrlCandidate(t.snap, j) =>
                       (j \in AtRiskSet(t, t.ts) <=>
                          /\ String(t.snap[j].id) \in DOMAIN t.ts
                          /\ RemainingBy(t, t.ts, j) > 0
                          /\ RemainingBy(t, t.ts, j) <= ONE_HOUR)
                /\ t.atRisk >= Cardinality({ j \in 1..Len(t.snap) :
                                               /\ EmptyUrlCandidate(t.snap, j)
                                               /\ String(t.snap[j].id) \in DOMAIN t.ts
                                               /\ RemainingBy(t, t.ts, j) > 0
                                               /\ RemainingBy(t, t.ts, j) <= ONE_HOUR })

\* A pass has saved with an active or pinned tab whose URL is empty in its
\* snapshot, having removed another tab whose URL is empty too.
C27_Witness ==
    \E s \in Slots :
        LET t == tasks[s]
        IN  /\ SweepSaved(t)
            /\ \E i, j \in 1..Len(t.snap) :
                  /\ i # j
                  /\ t.snap[i].active \/ t.snap[i].pinned
                  /\ t.snap[i].url = ""
                  /\ EmptyUrlCandidate(t.snap, j)
                  /\ Expired(t, t.snap[j].id)
                  /\ t.snap[j].id \in t.removed
                  /\ t.snap[j].id \notin DOMAIN tabs

====
